---- MODULE Spec2Model ----
(***************************************************************************)
(* A model of datapipelineautomation.py: the product/order ETL pipeline.   *)
(*                                                                         *)
(*   - tables are sequences of rows, rows are records of cells;            *)
(*   - a cell is <<>> (null: JSON null, NaN, None, NaT) or <<v>>;          *)
(*   - money is counted in thousandths (10.0 is 10000), so that the tax    *)
(*     factor 1.10 is the exact integer operation (p * 11) \div 10;        *)
(*   - the text of a date is <<year, month, day>>; pd.to_datetime turns it *)
(*     into an ordinal number of days, .dt.year takes the year back out.   *)
(*                                                                         *)
(* Spec          is one run of run_pipeline: the main thread and the two   *)
(*               extraction tasks of the ThreadPoolExecutor, interleaved.  *)
(* SpecTransform applies transform_data to every pair of bounded tables.   *)
(***************************************************************************)
EXTENDS Integers, Sequences, FiniteSets, TLC

\* Bounds of the model.
MaxProducts == 2
MaxOrders == 2
\* extract_from_csv builds range(101, 151): 50 rows.  The model builds
\* BatchSize rows, with ids 101 .. 100 + BatchSize.
BatchSize == 2

-----------------------------------------------------------------------------
\* Cells.

Null == <<>>

V(x) == <<x>>

IsNull(c) == c = Null

\* Arithmetic of pandas columns: a null operand gives a null result.
Add(a, b) == IF IsNull(a) \/ IsNull(b) THEN Null ELSE V(a[1] + b[1])

\* A wrong tax factor: 1.20 for 1.10.
TimesTaxOther(c) == IF IsNull(c) THEN Null ELSE V((c[1] * 12) \div 10)

\* api_df['unit_price'] * 1.10
TimesTax(c) == IF IsNull(c) THEN Null ELSE V((c[1] * 11) \div 10)

-----------------------------------------------------------------------------
\* Dates.

DaysPerMonth == 31
MonthsPerYear == 12

\* Whether the text <<y, m, d>> is a date pd.to_datetime can parse.
IsDateText(t) == t[2] \in 1..MonthsPerYear /\ t[3] \in 1..DaysPerMonth

\* The ordinal of a parsed date; it orders dates as the calendar does.
Ordinal(t) == (t[1] * MonthsPerYear + (t[2] - 1)) * DaysPerMonth + (t[3] - 1)

\* pd.to_datetime on one cell: null stays null (NaT).
to_datetime(c) == IF IsNull(c) THEN Null ELSE V(Ordinal(c[1]))

\* .dt.year
Year(c) == IF IsNull(c) THEN Null ELSE V(c[1] \div (MonthsPerYear * DaysPerMonth))

\* datetime.now() / pd.Timestamp.now() of the run, and the start of the
\* year before it (faker's '-1y').
Today == <<2024, 6, 15>>
YearAgo == <<2023, 6, 15>>
Now == Ordinal(Today)

-----------------------------------------------------------------------------
\* Input tables.

\* Rows of the API's JSON array, under the API's native field names.
ProductRow(i, t, p, c) == [id |-> i, title |-> t, price |-> p, category |-> c]

ProductRows ==
    { ProductRow(V(1), V("Widget"), V(10000), V("tools")),
      ProductRow(V(2), V("Gadget"), V(25000), V("toys")),
      ProductRow(V(1), V("Gizmo"), V(5000), V("toys")),
      ProductRow(V(0), V("Widget"), V(10000), V("tools")),
      ProductRow(Null, V("Widget"), V(10000), V("tools")),
      ProductRow(V(2), V(""), V(10000), V("tools")),
      ProductRow(V(2), V("Gadget"), V(0), V("toys")),
      ProductRow(V(2), V("Gadget"), Null, V("toys")),
      ProductRow(V(2), V("Gadget"), V(25000), Null) }

\* Rows of the orders CSV.
OrderRow(i, n, a, d) ==
    [order_id |-> i, customer_name |-> n, order_amount |-> a, order_date |-> d]

OrderRows ==
    { OrderRow(V(101), V("A"), V(20000), V(<<2024, 1, 1>>)),
      OrderRow(V(102), V("B"), V(50000), V(Today)),
      OrderRow(V(99), V("A"), V(20000), V(<<2024, 1, 1>>)),
      OrderRow(V(103), V(""), V(20000), V(<<2024, 1, 1>>)),
      OrderRow(V(104), V("A"), V(0), V(<<2024, 1, 1>>)),
      OrderRow(V(105), V("A"), V(-20000), V(<<2024, 1, 1>>)),
      OrderRow(V(106), V("A"), V(20000), V(<<2025, 1, 1>>)),
      OrderRow(V(107), V("A"), V(20000), V(<<2024, 13, 45>>)),
      OrderRow(V(108), V("A"), Null, V(<<2024, 1, 1>>)) }

\* All tables of at most n rows drawn from S.
TablesOf(S, n) == UNION { [1..k -> S] : k \in 0..n }

\* DataFrame.empty
empty(df) == Len(df) = 0

-----------------------------------------------------------------------------
\* The schemas.

\* Check.str_length(min_value=1), nullable=False
StrOk(c) == ~IsNull(c) /\ Len(c[1]) >= 1

\* Check.gt(0), nullable=False
PositiveOk(c) == ~IsNull(c) /\ c[1] > 0

\* Check.ge(n), nullable=False
AtLeastOk(c, n) == ~IsNull(c) /\ c[1] >= n

MinProductId == 1
MinOrderId == 100

ProductRowOk(r) ==
    /\ AtLeastOk(r.product_id, MinProductId)
    /\ StrOk(r.product_name)
    /\ PositiveOk(r.unit_price)
    /\ StrOk(r.product_category)
    /\ PositiveOk(r.price_with_tax)

\* The Product schema without its product_id column.
product_schema_without_id(df) ==
    \A i \in 1..Len(df) :
        /\ StrOk(df[i].product_name)
        /\ PositiveOk(df[i].unit_price)
        /\ StrOk(df[i].product_category)
        /\ PositiveOk(df[i].price_with_tax)

\* product_schema.validate(df, lazy=True) passes
product_schema(df) == \A i \in 1..Len(df) : ProductRowOk(df[i])

OrderRowOk(r) ==
    /\ AtLeastOk(r.order_id, MinOrderId)
    /\ StrOk(r.customer_name)
    /\ PositiveOk(r.order_amount)
    /\ ~IsNull(r.order_date) /\ r.order_date[1] <= Now
    /\ PositiveOk(r.total_order_value)

\* order_schema.validate(df, lazy=True) passes
order_schema(df) == \A i \in 1..Len(df) : OrderRowOk(df[i])

-----------------------------------------------------------------------------
\* Exceptions and results.

\* An exception object: its class and the place that raised it.
Exc(type, where) == [type |-> type, where |-> where]

NoError == Exc("none", <<>>)

Return(df) == [status |-> "ok", table |-> df, error |-> NoError]

Raise(e) == [status |-> "error", table |-> <<>>, error |-> e]

-----------------------------------------------------------------------------
\* transform_data.

\* Lines 99-108: select and rename the API's columns, tag, add the tax.
transform_products(api_df) ==
    [i \in 1..Len(api_df) |->
        [product_id |-> api_df[i].id,
         product_name |-> api_df[i].title,
         unit_price |-> api_df[i].price,
         product_category |-> api_df[i].category,
         source |-> "API",
         load_timestamp |-> Now,
         price_with_tax |-> TimesTax(api_df[i].price)]]

\* pd.to_datetime(..., errors='coerce'): no text makes it raise.
dates_parse_coerce(csv_df) == TRUE

\* pd.to_datetime(csv_df['order_date']) raises on a text that is no date.
dates_parse(csv_df) ==
    \A i \in 1..Len(csv_df) :
        IsNull(csv_df[i].order_date) \/ IsDateText(csv_df[i].order_date[1])

\* Lines 116-120: select the order columns, tag, parse the date, take the year.
transform_orders(csv_df) ==
    [i \in 1..Len(csv_df) |->
        [order_id |-> csv_df[i].order_id,
         customer_name |-> csv_df[i].customer_name,
         order_amount |-> csv_df[i].order_amount,
         source |-> "CSV",
         load_timestamp |-> Now,
         order_date |-> to_datetime(csv_df[i].order_date),
         order_year |-> Year(to_datetime(csv_df[i].order_date))]]

\* Line 127: csv_df['product_id'] = api_df['product_id'].iloc[0]
first_product_id(products) == products[1].product_id

\* One row of the merge: the order's columns and the product's four.
JoinedRow(o, key, name, price, category, taxed) ==
    [order_id |-> o.order_id,
     customer_name |-> o.customer_name,
     order_amount |-> o.order_amount,
     source |-> o.source,
     load_timestamp |-> o.load_timestamp,
     order_date |-> o.order_date,
     order_year |-> o.order_year,
     product_id |-> key,
     product_name |-> name,
     unit_price |-> price,
     product_category |-> category,
     price_with_tax |-> taxed,
     total_order_value |-> Null]

\* The rows pd.merge(how='left') makes of one left row: one per right row
\* with the same key, in the right table's order; one with nulls if none.
\* (pandas matches a null key with a null key.)
merge_row(o, key, products) ==
    LET Same(p) == p.product_id = key
        hits == SelectSeq(products, Same)
    IN  IF hits = <<>>
        THEN << JoinedRow(o, key, Null, Null, Null, Null) >>
        ELSE [j \in 1..Len(hits) |->
                JoinedRow(o, key, hits[j].product_name, hits[j].unit_price,
                          hits[j].product_category, hits[j].price_with_tax)]

RECURSIVE merge(_, _, _)
\* Lines 128-133: pd.merge(csv_df, api_df[[...]], on='product_id', how='left')
merge(orders, key, products) ==
    IF orders = <<>>
    THEN <<>>
    ELSE merge_row(Head(orders), key, products) \o merge(Tail(orders), key, products)

\* Line 134
total_order_value(r) ==
    [r EXCEPT !.total_order_value = Add(r.order_amount, r.price_with_tax)]

FillCell(c, default) == IF IsNull(c) THEN V(default) ELSE c

\* Lines 135-140: the four columns fillna names, and no other.
fillna(r) ==
    [r EXCEPT !.product_name = FillCell(@, "Unknown"),
              !.unit_price = FillCell(@, 0),
              !.product_category = FillCell(@, "N/A"),
              !.price_with_tax = FillCell(@, 0)]

\* Lines 127-140: the combined table before its validation.
combine(orders, products) ==
    LET merged == merge(orders, first_product_id(products), products)
    IN  [i \in 1..Len(merged) |-> fillna(total_order_value(merged[i]))]

\* A validation that drops the violating rows and returns the rest.
validate_combined_filtering(combined_df) ==
    Return(SelectSeq(combined_df, OrderRowOk))

\* Lines 141-142, 147: the combined table is returned if it passes
\* order_schema, and SchemaErrors is raised otherwise.
validate_combined(combined_df) ==
    IF order_schema(combined_df)
    THEN Return(combined_df)
    ELSE Raise(Exc("SchemaErrors", "order_schema"))

\* Line 126
both_present(api_df, csv_df) == ~empty(csv_df) /\ ~empty(api_df)

\* A validation-free transform_data: both validations dropped, nothing raised
\* for a bad table.
transform_data_unvalidated(api_df, csv_df) ==
    IF ~empty(csv_df) /\ ~dates_parse(csv_df)
    THEN Raise(Exc("ValueError", "to_datetime"))
    ELSE IF both_present(api_df, csv_df)
    THEN Return(combine(transform_orders(csv_df), transform_products(api_df)))
    ELSE Return(<<>>)

\* transform_data(api_df, csv_df), lines 93-150.  The except clause logs
\* and re-raises the exception it caught.
transform_data(api_df, csv_df) ==
    IF ~empty(api_df) /\ ~product_schema(transform_products(api_df))
    THEN Raise(Exc("SchemaErrors", "product_schema"))
    ELSE IF ~empty(csv_df) /\ ~dates_parse(csv_df)
    THEN Raise(Exc("ValueError", "to_datetime"))
    ELSE IF both_present(api_df, csv_df)
    THEN validate_combined(combine(transform_orders(csv_df),
                                   transform_products(api_df)))
    ELSE Return(<<>>)

-----------------------------------------------------------------------------
\* State.

VARIABLES
    pc,                 \* where the main thread is
    api_task,           \* the future of extract_from_api and its retry state
    csv_task,           \* the future of extract_from_csv
    api_data,           \* run_pipeline's api_data / transform_data's api_df
    csv_data,           \* run_pipeline's csv_data / transform_data's csv_df
    result,             \* what transform_data returned or raised
    output,             \* the file at CONFIG['OUTPUT_PATH']
    load_calls,         \* how many times load_to_csv was invoked
    error               \* the exception run_pipeline raised to its caller

vars == <<pc, api_task, csv_task, api_data, csv_data, result, output,
          load_calls, error>>

NotCalled == [status |-> "none", table |-> <<>>, error |-> NoError]

\* The output file as the run finds it: whatever an earlier run left.
Untouched == [kind |-> "untouched", table |-> <<>>]

IdleApi ==
    [state |-> "idle", attempts |-> <<>>, waits |-> <<>>,
     table |-> <<>>, exception |-> NoError]

IdleCsv == [state |-> "idle", table |-> <<>>, exception |-> NoError]

-----------------------------------------------------------------------------
\* transform_data on its own, on every pair of bounded tables.

InitTransform ==
    /\ pc = "call"
    /\ api_data \in TablesOf(ProductRows, MaxProducts)
    /\ csv_data \in TablesOf(OrderRows, MaxOrders)
    /\ result = NotCalled
    /\ api_task = IdleApi
    /\ csv_task = IdleCsv
    /\ output = Untouched
    /\ load_calls = 0
    /\ error = NoError

CallTransform ==
    /\ pc = "call"
    /\ result' = transform_data(api_data, csv_data)
    /\ pc' = "called"
    /\ UNCHANGED <<api_task, csv_task, api_data, csv_data, output,
                   load_calls, error>>

NextTransform == CallTransform

SpecTransform == InitTransform /\ [][NextTransform]_vars

-----------------------------------------------------------------------------
\* extract_from_api under @retry (line 56).

StopAfter == 3
WaitMultiplier == 1
WaitMin == 4
WaitMax == 10
ExpBase == 2

Max(a, b) == IF a >= b THEN a ELSE b
Min(a, b) == IF a <= b THEN a ELSE b

\* stop_after_attempt(4)
stop_after_one_more(attempt_number) == attempt_number >= StopAfter + 1

\* stop_after_attempt(3): whether to stop after attempt attempt_number.
stop_after_attempt(attempt_number) == attempt_number >= StopAfter

\* wait_exponential(multiplier=1, min=4, max=10): the wait after attempt
\* attempt_number, multiplier * 2^(attempt_number - 1) kept in [min, max].
wait_exponential(attempt_number) ==
    Max(Max(0, WaitMin),
        Min(WaitMultiplier * ExpBase ^ (attempt_number - 1), WaitMax))

\* What one call of extract_from_api's body can raise at attempt k:
\* a RequestException (logged and re-raised by the except clause, lines
\* 68-70) or another exception (not caught there).  @retry retries on both.
AttemptErrors(k) ==
    { Exc("ConnectionError", <<"extract_from_api", k>>),
      Exc("HTTPError", <<"extract_from_api", k>>),
      Exc("ValueError", <<"extract_from_api", k>>) }

\* tenacity's RetryError (reraise is left False): it holds the last attempt.
RetryError(last) ==
    [type |-> "RetryError", where |-> "tenacity", last_attempt |-> last]

\* The tables extract_from_csv can return (lines 77-85): row i has order_id
\* 100 + i, a faker name, an amount in [50.00, 500.00] and a date between a
\* year ago and today.  The model draws the two ends of each range.
GeneratedRows(i) ==
    { OrderRow(V(100 + i), V("A"), V(50000), V(YearAgo)),
      OrderRow(V(100 + i), V("B"), V(500000), V(Today)) }

GeneratedOrders ==
    { t \in [1..BatchSize -> UNION { GeneratedRows(i) : i \in 1..BatchSize }] :
        \A i \in 1..BatchSize : t[i] \in GeneratedRows(i) }

Finished(task) == task.state \in {"done", "failed"}

-----------------------------------------------------------------------------
\* run_pipeline.

Init ==
    /\ pc = "start"
    /\ api_task = IdleApi
    /\ csv_task = IdleCsv
    /\ api_data = <<>>
    /\ csv_data = <<>>
    /\ result = NotCalled
    /\ output = Untouched
    /\ load_calls = 0
    /\ error = NoError

\* Line 172: executor.submit(extract_from_api); a worker thread takes it.
SubmitApi ==
    /\ pc = "start"
    /\ api_task' = [api_task EXCEPT !.state = "running"]
    /\ pc' = "submit_csv"
    /\ UNCHANGED <<csv_task, api_data, csv_data, result, output, load_calls, error>>

\* Line 173: executor.submit(extract_from_csv); a second worker takes it.
SubmitCsv ==
    /\ pc = "submit_csv"
    /\ csv_task' = [csv_task EXCEPT !.state = "running"]
    /\ pc' = "await_api"
    /\ UNCHANGED <<api_task, api_data, csv_data, result, output, load_calls, error>>

\* One attempt of extract_from_api that returns a table (lines 59-67).
ApiAttemptSucceeds ==
    /\ api_task.state = "running"
    /\ \E df \in TablesOf(ProductRows, MaxProducts) :
          api_task' = [api_task EXCEPT !.state = "done",
                                       !.attempts = Append(@, NoError),
                                       !.table = df]
    /\ UNCHANGED <<pc, csv_task, api_data, csv_data, result, output, load_calls, error>>

\* One attempt that raises, and tenacity's decision after it: stop with a
\* RetryError, or sleep wait_exponential and try again.
ApiAttemptFails ==
    /\ api_task.state = "running"
    /\ \E e \in AttemptErrors(Len(api_task.attempts) + 1) :
          LET n == Len(api_task.attempts) + 1 IN
          IF stop_after_attempt(n)
          THEN api_task' = [api_task EXCEPT !.state = "failed",
                                            !.attempts = Append(@, e),
                                            !.exception = RetryError(e)]
          ELSE api_task' = [api_task EXCEPT !.state = "sleeping",
                                            !.attempts = Append(@, e),
                                            !.waits = Append(@, wait_exponential(n))]
    /\ UNCHANGED <<pc, csv_task, api_data, csv_data, result, output, load_calls, error>>

\* The sleep between two attempts ends.
ApiWake ==
    /\ api_task.state = "sleeping"
    /\ api_task' = [api_task EXCEPT !.state = "running"]
    /\ UNCHANGED <<pc, csv_task, api_data, csv_data, result, output, load_calls, error>>

\* extract_from_csv, lines 72-90: the generated table, or the exception of
\* writing or reading sample_orders.csv, logged and re-raised.
extract_from_csv ==
    /\ csv_task.state = "running"
    /\ \/ \E df \in GeneratedOrders :
             csv_task' = [csv_task EXCEPT !.state = "done", !.table = df]
       \/ csv_task' = [csv_task EXCEPT
                          !.state = "failed",
                          !.exception = Exc("OSError", "extract_from_csv")]
    /\ UNCHANGED <<pc, api_task, api_data, csv_data, result, output, load_calls, error>>

\* Line 174: api_future.result() blocks until the task is over, then gives
\* its table or raises its exception, which leaves the with block.
AwaitApi ==
    /\ pc = "await_api"
    /\ Finished(api_task)
    /\ IF api_task.state = "done"
       THEN /\ api_data' = api_task.table
            /\ pc' = "await_csv"
            /\ error' = error
       ELSE /\ error' = api_task.exception
            /\ pc' = "shutdown"
            /\ api_data' = api_data
    /\ UNCHANGED <<api_task, csv_task, csv_data, result, output, load_calls>>

\* Line 175: csv_future.result()
AwaitCsv ==
    /\ pc = "await_csv"
    /\ Finished(csv_task)
    /\ IF csv_task.state = "done"
       THEN /\ csv_data' = csv_task.table
            /\ error' = error
       ELSE /\ error' = csv_task.exception
            /\ csv_data' = csv_data
    /\ pc' = "shutdown"
    /\ UNCHANGED <<api_task, csv_task, api_data, result, output, load_calls>>

\* executor.shutdown(wait=False)
shutdown_no_wait == TRUE

\* ThreadPoolExecutor.__exit__ is shutdown(wait=True): it returns when both
\* tasks are over.
shutdown_wait == Finished(api_task) /\ Finished(csv_task)

\* The end of the with block (line 171), on the normal path and on an
\* exception alike; an exception then reaches the except clause (lines
\* 192-194), which logs it and re-raises it.
ExitWith ==
    /\ pc = "shutdown"
    /\ shutdown_wait
    /\ pc' = IF error = NoError THEN "transform" ELSE "raised"
    /\ UNCHANGED <<api_task, csv_task, api_data, csv_data, result, output,
                   load_calls, error>>

\* if True:
should_load_always(df) == TRUE

\* Line 185: if not transformed_data.empty
should_load(df) == ~empty(df)

\* Lines 178-189: the call of transform_data and the two guards around it.
Transform ==
    /\ pc = "transform"
    /\ IF empty(api_data) /\ empty(csv_data)
       THEN /\ pc' = "returned"
            /\ UNCHANGED <<result, error>>
       ELSE /\ result' = transform_data(api_data, csv_data)
            /\ error' = result'.error
            /\ pc' = IF result'.status = "error" THEN "raised"
                     ELSE IF should_load(result'.table) THEN "load"
                     ELSE "returned"
    /\ UNCHANGED <<api_task, csv_task, api_data, csv_data, output, load_calls>>

\* load_to_csv(transformed_data), lines 153-163, and the end of the run.
\* df.to_csv can fail having written nothing or a part of the rows;
\* files.download can fail after the file is written.
load_to_csv ==
    /\ pc = "load"
    /\ load_calls' = load_calls + 1
    /\ \/ /\ output' = [kind |-> "written", table |-> result.table]
          /\ pc' = "returned"
          /\ error' = error
       \/ /\ \/ output' = output
             \/ \E k \in 0..(Len(result.table) - 1) :
                   output' = [kind |-> "partial",
                              table |-> SubSeq(result.table, 1, k)]
          /\ pc' = "raised"
          /\ error' = Exc("OSError", "to_csv")
       \/ /\ output' = [kind |-> "written", table |-> result.table]
          /\ pc' = "raised"
          /\ error' = Exc("Exception", "files.download")
    /\ UNCHANGED <<api_task, csv_task, api_data, csv_data, result>>

Next ==
    \/ SubmitApi
    \/ SubmitCsv
    \/ ApiAttemptSucceeds
    \/ ApiAttemptFails
    \/ ApiWake
    \/ extract_from_csv
    \/ AwaitApi
    \/ AwaitCsv
    \/ ExitWith
    \/ Transform
    \/ load_to_csv

Spec == Init /\ [][Next]_vars

-----------------------------------------------------------------------------
\* Properties of transform_data (under SpecTransform).

Called == pc = "called"

Returned == Called /\ result.status = "ok"

Raised == Called /\ result.status = "error"

\* Whether a raw order row breaks a rule the Combined schema puts on the
\* order's own columns (lines 48-51), stated on the CSV's values.
OrderBreaksSchema(o) ==
    \/ IsNull(o.order_id) \/ o.order_id[1] < 100
    \/ IsNull(o.customer_name) \/ o.customer_name[1] = ""
    \/ IsNull(o.order_amount) \/ o.order_amount[1] <= 0
    \/ IsNull(o.order_date) \/ ~IsDateText(o.order_date[1])
    \/ Ordinal(o.order_date[1]) > Ordinal(Today)

\* Whether a raw product row breaks the Product schema (lines 40-44),
\* stated on the API's values.
ProductBreaksSchema(p) ==
    \/ IsNull(p.id) \/ p.id[1] < 1
    \/ IsNull(p.title) \/ p.title[1] = ""
    \/ IsNull(p.price) \/ p.price[1] <= 0
    \/ IsNull(p.category) \/ p.category[1] = ""

HasOrderId(df, id) == \E k \in 1..Len(df) : df[k].order_id = id

\* C4 (validation gate): on non-empty products and orders, if an order
\* breaks the Combined schema (for instance order_amount <= 0) then
\* transform_data fails and returns no table; and a table it returns has a
\* row for every input order, so no violating row was dropped on the way.
C4_ValidationGate ==
    (Called /\ ~empty(api_data) /\ ~empty(csv_data)) =>
        /\ (\E i \in 1..Len(csv_data) : OrderBreaksSchema(csv_data[i])) =>
              (result.status = "error" /\ result.table = <<>>)
        /\ result.status = "ok" =>
              \A i \in 1..Len(csv_data) :
                  HasOrderId(result.table, csv_data[i].order_id)

\* C4's case: valid products, one good order and one order whose amount is
\* not positive; the Combined schema rejects the table.
C4_Witness ==
    /\ Raised
    /\ result.error = Exc("SchemaErrors", "order_schema")
    /\ Len(csv_data) = 2
    /\ ~OrderBreaksSchema(csv_data[1])
    /\ csv_data[2].order_amount = V(0)

\* Whether the stage transform_data runs on a non-empty table passes.
ProductStagePasses ==
    \A j \in 1..Len(api_data) : ~ProductBreaksSchema(api_data[j])

OrderStagePasses ==
    \A i \in 1..Len(csv_data) :
        IsNull(csv_data[i].order_date) \/ IsDateText(csv_data[i].order_date[1])

\* C5 as claimed: whenever one of the two tables is empty, transform_data
\* returns an empty table and does not fail, whatever the other table holds.
C5_Original ==
    (Called /\ (empty(api_data) \/ empty(csv_data))) =>
        (result.status = "ok" /\ result.table = <<>>)

\* C5 as amended: whenever one of the two tables is empty, transform_data
\* never returns a row; it returns the empty table exactly when the other
\* table passes its own stage (the products pass the Product schema, the
\* order dates parse), and it fails otherwise.
C5_EmptyInput ==
    (Called /\ (empty(api_data) \/ empty(csv_data))) =>
        /\ result.table = <<>>
        /\ result.status = "ok" <=> (ProductStagePasses /\ OrderStagePasses)

\* C5's case: no products, orders present, the empty table returned.
C5_Witness ==
    /\ Returned
    /\ empty(api_data)
    /\ Len(csv_data) = 2
    /\ result.table = <<>>

\* C7 (derived fields): every row transform_data returns for non-empty
\* products and orders carries the first product's id, the id, title, price
\* and category of an API product with that id, price_with_tax =
\* unit_price * 1.10, and, of one of the orders, total_order_value =
\* order_amount + price_with_tax and order_year = the year of order_date;
\* its source is "CSV".
C7_DerivedFields ==
    (Returned /\ ~empty(api_data) /\ ~empty(csv_data)) =>
        \A k \in 1..Len(result.table) :
            LET r == result.table[k] IN
            /\ r.product_id = api_data[1].id
            /\ \E j \in 1..Len(api_data) :
                  /\ r.product_id = api_data[j].id
                  /\ r.product_name = api_data[j].title
                  /\ r.unit_price = api_data[j].price
                  /\ r.product_category = api_data[j].category
            /\ r.price_with_tax = V((r.unit_price[1] * 110) \div 100)
            /\ \E i \in 1..Len(csv_data) :
                  /\ r.order_id = csv_data[i].order_id
                  /\ r.order_amount = csv_data[i].order_amount
                  /\ r.total_order_value =
                        V(csv_data[i].order_amount[1] + r.price_with_tax[1])
                  /\ r.order_year = V(csv_data[i].order_date[1][1])
            /\ r.source = "CSV"

\* C7's case: the product {1, "Widget", 10.0, "tools"} and the order
\* {101, "A", 20.0, 2024-01-01} give one row with price_with_tax 11.0,
\* total_order_value 31.0 and order_year 2024.
C7_Witness ==
    /\ Returned
    /\ api_data = << ProductRow(V(1), V("Widget"), V(10000), V("tools")) >>
    /\ csv_data = << OrderRow(V(101), V("A"), V(20000), V(<<2024, 1, 1>>)) >>
    /\ Len(result.table) = 1
    /\ result.table[1].product_id = V(1)
    /\ result.table[1].product_name = V("Widget")
    /\ result.table[1].unit_price = V(10000)
    /\ result.table[1].product_category = V("tools")
    /\ result.table[1].price_with_tax = V(11000)
    /\ result.table[1].order_amount = V(20000)
    /\ result.table[1].total_order_value = V(31000)
    /\ result.table[1].order_year = V(2024)
    /\ result.table[1].source = "CSV"

\* Whether the product join of a returned row matched a product row.
JoinMatched(r) == \E j \in 1..Len(api_data) : api_data[j].id = r.product_id

C10_Original ==
    (Returned /\ ~empty(api_data) /\ ~empty(csv_data)) =>
        /\ Len(result.table) = Len(csv_data)
        /\ \A i \in 1..Len(result.table) :
              /\ result.table[i].order_id = csv_data[i].order_id
              /\ result.table[i].product_id = api_data[1].id
              /\ result.table[i].product_name = api_data[1].title
              /\ result.table[i].unit_price = api_data[1].price
              /\ result.table[i].product_category = api_data[1].category

-----------------------------------------------------------------------------
\* Properties of run_pipeline (under Spec).

\* The rules of the Combined schema on one row of a file, spelled out.
RowIsValid(r) ==
    /\ ~IsNull(r.order_id) /\ r.order_id[1] >= 100
    /\ ~IsNull(r.customer_name) /\ r.customer_name[1] # ""
    /\ ~IsNull(r.order_amount) /\ r.order_amount[1] > 0
    /\ ~IsNull(r.order_date) /\ r.order_date[1] <= Ordinal(Today)
    /\ ~IsNull(r.total_order_value) /\ r.total_order_value[1] > 0

\* C1 (no partial output): the output file is touched only by a load_to_csv
\* that follows a transform_data of the same run whose combined table passed
\* order_schema, and the rows in the file are rows of that validated table;
\* a run that raises before load_to_csv (extraction or transformation
\* failed) leaves the file untouched.
C1_NoPartialOutput ==
    /\ output # Untouched =>
          /\ load_calls >= 1
          /\ result.status = "ok"
          /\ \A k \in 1..Len(output.table) :
                RowIsValid(output.table[k]) /\ output.table[k] = result.table[k]
          /\ output.kind = "written" => output.table = result.table
    /\ (pc = "raised" /\ load_calls = 0) => output = Untouched

\* C1's case: a run that went through transform_data's validation and
\* load_to_csv, and whose file holds the whole combined table.
C1_Witness ==
    /\ pc = "returned"
    /\ output.kind = "written"
    /\ Len(output.table) >= BatchSize
    /\ output.table = result.table

\* The other side of C1: a run that raised out of transform_data's
\* validation, with the file untouched, is reachable too.
ValidationAbortReached ==
    /\ pc = "raised"
    /\ error = Exc("SchemaErrors", "product_schema")
    /\ output = Untouched

IsFailure(e) == e # NoError

\* C2 (retry bound): extract_from_api is attempted at most 3 times, only
\* the last attempt made can be a success, and the waits between attempts
\* are non-decreasing and lie between 4 and 10.
C2_RetryBound ==
    /\ Len(api_task.attempts) <= 3
    /\ \A i \in 1..(Len(api_task.attempts) - 1) : IsFailure(api_task.attempts[i])
    /\ Len(api_task.waits) <= Len(api_task.attempts)
    /\ api_task.state = "done" =>
          /\ ~IsFailure(api_task.attempts[Len(api_task.attempts)])
          /\ Len(api_task.waits) = Len(api_task.attempts) - 1
    /\ \A i \in 1..Len(api_task.waits) :
          /\ api_task.waits[i] >= 4
          /\ api_task.waits[i] <= 10
          /\ i > 1 => api_task.waits[i - 1] <= api_task.waits[i]

\* C2's case: three failed attempts, two waits, the call given up.
C2_Witness ==
    /\ api_task.state = "failed"
    /\ Len(api_task.attempts) = 3
    /\ Len(api_task.waits) = 2

\* C3 as claimed: when all 3 attempts fail, the exception that reaches
\* run_pipeline's caller is the exception of the last attempt itself, and
\* no product table is returned.
C3_Original ==
    (pc = "raised" /\ api_task.state = "failed") =>
        /\ error = api_task.attempts[Len(api_task.attempts)]
        /\ api_data = <<>>

\* C6 (empty-input abort): once an extractor has returned an empty table,
\* load_to_csv is never invoked and the output file stays untouched.
C6_EmptyInputNoLoad ==
    (\/ api_task.state = "done" /\ empty(api_task.table)
     \/ csv_task.state = "done" /\ empty(csv_task.table)) =>
        (load_calls = 0 /\ output = Untouched)

\* C6's case: the API returned no products, the orders were extracted,
\* transform_data returned the empty table, and the run is over.
C6_Witness ==
    /\ pc = "returned"
    /\ api_task.state = "done" /\ empty(api_task.table)
    /\ ~empty(csv_data)
    /\ result = Return(<<>>)

\* C9 (fork-join barrier): when transform_data or load_to_csv is invoked,
\* and when the run has returned or raised, neither extraction task is
\* still running.
C9_Barrier ==
    pc \in {"transform", "load", "returned", "raised"} =>
        (Finished(api_task) /\ Finished(csv_task))

\* C9's case: the API task gave up, the run raised, and the CSV task, which
\* ran beside it, is over.
C9_Witness ==
    /\ pc = "raised"
    /\ api_task.state = "failed"
    /\ csv_task.state = "done"

====
